---- MODULE Spec2Model ----
(***************************************************************************)
(* A model of mcp-pangolin: the OpenAPI extraction engine (swagger.rs),    *)
(* the HTTP client (pangolin_client.rs) and the MCP service facade         *)
(* (service.rs).                                                           *)
(*                                                                         *)
(* Text is a sequence of one-character strings, so that trimming,          *)
(* replacing and placeholder substitution are computed character by        *)
(* character as the code does.  An Option<T> is a sequence of length at    *)
(* most one: <<>> is None and <<x>> is Some(x).                            *)
(***************************************************************************)
EXTENDS FiniteSets, Integers, Sequences, TLC

VARIABLES
    doc,        \* the parsed SwaggerSpec handed to PangolinService::new
    phase,      \* "parsed": document loaded; "serving": service constructed
    base_url,   \* PangolinService.base_url
    client,     \* PangolinClient: [base_url, api_key]
    read_only,  \* PangolinService.read_only
    endpoints,  \* PangolinService.endpoints
    calls,      \* one record per call_tool invocation slot
    listed      \* Option: the tools of the last list_tools response

vars == <<doc, phase, base_url, client, read_only, endpoints, calls, listed>>

(***************************************************************************)
(* Bounds of the model.                                                    *)
(***************************************************************************)
MaxPaths == 2   \* paths of a document in the extraction specification
MaxCalls == 1   \* call_tool invocations that may be in flight together

None == <<>>
Some(x) == <<x>>
IsSome(o) == Len(o) > 0
Unwrap(o) == o[1]

(***************************************************************************)
(* Text helpers (std::string).                                             *)
(***************************************************************************)
RECURSIVE Str(_)
\* The text as one string value: what format!("{}", text) contributes.
Str(s) == IF s = <<>> THEN "" ELSE Head(s) \o Str(Tail(s))

Range(s) == {s[i] : i \in 1..Len(s)}

StartsWith(s, pat) == Len(pat) <= Len(s) /\ SubSeq(s, 1, Len(pat)) = pat

Drop(s, n) == SubSeq(s, n + 1, Len(s))

RECURSIVE trim_start_matches(_, _)
\* str::trim_start_matches(c): every leading occurrence of c is removed.
trim_start_matches(s, c) ==
    IF s # <<>> /\ Head(s) = c THEN trim_start_matches(Tail(s), c) ELSE s

RECURSIVE trim_end_matches(_, _)
\* str::trim_end_matches(c): every trailing occurrence of c is removed.
trim_end_matches(s, c) ==
    IF s # <<>> /\ s[Len(s)] = c
    THEN trim_end_matches(SubSeq(s, 1, Len(s) - 1), c)
    ELSE s

RECURSIVE replace(_, _, _)
\* str::replace(pat, to): all non-overlapping matches, left to right.
\* (An empty pattern matches between every character.)
replace(s, pat, to) ==
    IF pat = <<>>
    THEN IF s = <<>> THEN to ELSE to \o <<Head(s)>> \o replace(Tail(s), pat, to)
    ELSE IF s = <<>> THEN <<>>
    ELSE IF StartsWith(s, pat) THEN to \o replace(Drop(s, Len(pat)), pat, to)
    ELSE <<Head(s)>> \o replace(Tail(s), pat, to)

(***************************************************************************)
(* types.rs                                                                *)
(***************************************************************************)
HttpMethod == {"GET", "POST", "PUT", "DELETE", "PATCH"}

is_write_operation_NoPatch(method) == method \in {"POST", "PUT", "DELETE"}

is_write_operation(method) == method \in {"POST", "PUT", "DELETE", "PATCH"}

\* HttpMethod::as_str
as_str(method) == method

from_openapi_type(type_str) ==
    IF type_str \in {"integer", "number", "boolean", "array", "object"}
    THEN type_str
    ELSE "string"

to_json_schema_type(param_type) == param_type

(***************************************************************************)
(* swagger.rs: name generation                                             *)
(***************************************************************************)
\* The position of the first "}" of s, or 0.
RECURSIVE FirstClose(_, _)
FirstClose(s, i) ==
    IF i > Len(s) THEN 0
    ELSE IF s[i] = "}" THEN i
    ELSE FirstClose(s, i + 1)

RECURSIVE param_re_replace_all(_)
\* Regex \{([^}]+)\} with replace_all(_, "by_$1"): the leftmost match starts
\* at a "{" that is followed by at least one character other than "}" and
\* then a "}"; the capture is everything between them.
param_re_replace_all(s) ==
    IF s = <<>> THEN <<>>
    ELSE IF Head(s) = "{"
            /\ FirstClose(s, 2) > 2
    THEN LET j == FirstClose(s, 2)
         IN  <<"b", "y", "_">> \o SubSeq(s, 2, j - 1)
                 \o param_re_replace_all(Drop(s, j))
    ELSE <<Head(s)>> \o param_re_replace_all(Tail(s))

method_prefix_Swapped(method) ==
    CASE method = "GET" -> <<>>
      [] method = "POST" -> <<"c", "r", "e", "a", "t", "e", "_">>
      [] method = "PUT" -> <<"u", "p", "d", "a", "t", "e", "_">>
      [] method = "DELETE" -> <<"d", "e", "l", "e", "t", "e", "_">>
      [] method = "PATCH" -> <<"p", "a", "t", "c", "h", "_">>

method_prefix(method) ==
    CASE method = "GET" -> <<>>
      [] method = "POST" -> <<"u", "p", "d", "a", "t", "e", "_">>
      [] method = "PUT" -> <<"c", "r", "e", "a", "t", "e", "_">>
      [] method = "DELETE" -> <<"d", "e", "l", "e", "t", "e", "_">>
      [] method = "PATCH" -> <<"p", "a", "t", "c", "h", "_">>

health_check == <<"h", "e", "a", "l", "t", "h", "_", "c", "h", "e", "c", "k">>

generate_tool_name(path, method) ==
    LET clean_path == replace(replace(trim_start_matches(path, "/"),
                                      <<"/">>, <<"_">>),
                              <<"-">>, <<"_">>)
        name_with_params == param_re_replace_all(clean_path)
    IN  IF name_with_params = <<>>
        THEN method_prefix(method) \o health_check
        ELSE method_prefix(method) \o name_with_params

(***************************************************************************)
(* swagger.rs: the extraction engine.                                      *)
(*                                                                         *)
(* A HashMap is a function on its key set.  RequestBody.content is the one *)
(* map whose iteration order the code observes (values().next()), so it is *)
(* a sequence of [media, media_type] entries in the iteration order of     *)
(* that map instance.  SwaggerSpec.paths is an IndexMap: a sequence of     *)
(* [path, item] entries with distinct paths, in declared order.            *)
(***************************************************************************)
EmptyMap == [k \in {} |-> None]

\* HashMap::insert of every entry of g into f: g wins on a shared key.
InsertAll(f, g) ==
    [k \in (DOMAIN f) \union (DOMAIN g) |-> IF k \in DOMAIN g THEN g[k] ELSE f[k]]

\* A map with the single entry k -> v.
Entry(k, v) == [x \in {k} |-> v]

convert_parameter_Required(param) ==
    LET schema == param.schema
        param_type ==
            IF IsSome(schema) /\ IsSome(Unwrap(schema).schema_type)
            THEN from_openapi_type(Unwrap(Unwrap(schema).schema_type))
            ELSE "string"
        default_value ==
            IF IsSome(schema) THEN Unwrap(schema).default ELSE None
    IN  [name |-> param.name,
         param_type |-> param_type,
         required |-> TRUE,
         description |-> param.description,
         default_value |-> default_value]

convert_parameter(param) ==
    LET schema == param.schema
        param_type ==
            IF IsSome(schema) /\ IsSome(Unwrap(schema).schema_type)
            THEN from_openapi_type(Unwrap(Unwrap(schema).schema_type))
            ELSE "string"
        default_value ==
            IF IsSome(schema) THEN Unwrap(schema).default ELSE None
    IN  [name |-> param.name,
         param_type |-> param_type,
         required |-> param.required,
         description |-> param.description,
         default_value |-> default_value]

RECURSIVE convert_schema_property(_, _)
convert_schema_property(name, prop) ==
    LET param_type ==
            IF IsSome(prop.schema_type)
            THEN from_openapi_type(Unwrap(prop.schema_type))
            ELSE "string"
        items ==
            IF IsSome(prop.items)
            THEN Some(convert_schema_property(<<"i", "t", "e", "m">>, Unwrap(prop.items)))
            ELSE None
    IN  [name |-> name,
         param_type |-> param_type,
         description |-> prop.description,
         default_value |-> prop.default,
         enum_values |-> prop.enum_values,
         nullable |-> IF IsSome(prop.nullable) THEN Unwrap(prop.nullable) ELSE FALSE,
         min_length |-> prop.min_length,
         max_length |-> prop.max_length,
         minimum |-> prop.minimum,
         maximum |-> prop.maximum,
         pattern |-> prop.pattern,
         items |-> items]

\* The direct properties of one schema, converted.
ConvertedProperties(schema) ==
    IF IsSome(schema.properties)
    THEN LET props == Unwrap(schema.properties)
         IN  [n \in DOMAIN props |-> convert_schema_property(n, props[n])]
    ELSE EmptyMap

\* The direct required list of one schema.
DirectRequired(schema) ==
    IF IsSome(schema.required) THEN Unwrap(schema.required) ELSE <<>>

RECURSIVE MergeAllOf_KeepFirst(_, _, _)
MergeAllOf_KeepFirst(subs, props, req) ==
    IF subs = <<>> THEN [properties |-> props, required |-> req]
    ELSE MergeAllOf_KeepFirst(Tail(subs),
                              InsertAll(ConvertedProperties(Head(subs)), props),
                              req \o DirectRequired(Head(subs)))

RECURSIVE MergeAllOf(_, _, _)
\* The allOf loop: each sub-schema in declared order, properties inserted
\* and its required list appended.
MergeAllOf(subs, props, req) ==
    IF subs = <<>> THEN [properties |-> props, required |-> req]
    ELSE MergeAllOf(Tail(subs),
                    InsertAll(props, ConvertedProperties(Head(subs))),
                    req \o DirectRequired(Head(subs)))

\* The media type whose schema is used: application/json, else the first
\* value of the content map in its iteration order.
ChosenMedia(request_body) ==
    LET content == request_body.content
        json == {i \in 1..Len(content) : content[i].media = "application/json"}
    IN  IF json # {} THEN Some(content[CHOOSE i \in json : TRUE])
        ELSE IF content # <<>> THEN Some(content[1])
        ELSE None

extract_request_body_schema(request_body) ==
    LET chosen == ChosenMedia(request_body)
    IN  IF ~IsSome(chosen) THEN None
        ELSE IF ~IsSome(Unwrap(chosen).media_type.schema) THEN None
        ELSE
        LET schema == Unwrap(Unwrap(chosen).media_type.schema)
            direct == [properties |-> ConvertedProperties(schema),
                       required |-> DirectRequired(schema)]
            afterAll ==
                IF IsSome(schema.all_of)
                THEN MergeAllOf(Unwrap(schema.all_of), direct.properties, direct.required)
                ELSE direct
            afterAny ==
                IF IsSome(schema.any_of) /\ Unwrap(schema.any_of) # <<>>
                THEN LET first == Head(Unwrap(schema.any_of))
                     IN  [properties |-> InsertAll(afterAll.properties,
                                                   ConvertedProperties(first)),
                          required |-> afterAll.required \o DirectRequired(first)]
                ELSE afterAll
        IN  IF DOMAIN afterAny.properties = {} THEN None
            ELSE Some([content_type |-> "application/json",
                       properties |-> afterAny.properties,
                       required |-> afterAny.required])

RECURSIVE ParamsAt(_, _)
\* The parameters declared at one location, converted, in declared order.
ParamsAt(parameters, location) ==
    IF parameters = <<>> THEN <<>>
    ELSE IF Head(parameters).location = location
    THEN <<convert_parameter(Head(parameters))>> \o ParamsAt(Tail(parameters), location)
    ELSE ParamsAt(Tail(parameters), location)

create_endpoint(path, method, operation) ==
    LET name == generate_tool_name(path, method)
        description ==
            IF IsSome(operation.description) THEN Unwrap(operation.description)
            ELSE IF IsSome(operation.summary) THEN Unwrap(operation.summary)
            ELSE as_str(method) \o " " \o Str(path)
        request_body ==
            IF IsSome(operation.request_body)
            THEN extract_request_body_schema(Unwrap(operation.request_body))
            ELSE None
    IN  Some([name |-> name,
              method |-> method,
              path |-> path,
              description |-> description,
              tags |-> operation.tags,
              path_params |-> ParamsAt(operation.parameters, "path"),
              query_params |-> ParamsAt(operation.parameters, "query"),
              request_body |-> request_body])

\* One "if let Some(op) = &path_item.<method>" block of extract_endpoints.
MethodBlock(path, method, op) ==
    IF IsSome(op) THEN create_endpoint(path, method, Unwrap(op)) ELSE <<>>

\* The body of the loop of extract_endpoints for one path: the five blocks in
\* the order in which the code writes them.
PathEndpoints_NoPatch(path, item) ==
    MethodBlock(path, "GET", item.get)
        \o MethodBlock(path, "POST", item.post)
        \o MethodBlock(path, "PUT", item.put)
        \o MethodBlock(path, "DELETE", item.delete)

PathEndpoints(path, item) ==
    MethodBlock(path, "GET", item.get)
        \o MethodBlock(path, "POST", item.post)
        \o MethodBlock(path, "PUT", item.put)
        \o MethodBlock(path, "DELETE", item.delete)
        \o MethodBlock(path, "PATCH", item.patch)

RECURSIVE ExtractFrom_LastPathFirst(_)
ExtractFrom_LastPathFirst(paths) ==
    IF paths = <<>> THEN <<>>
    ELSE ExtractFrom_LastPathFirst(Tail(paths))
            \o PathEndpoints(Head(paths).path, Head(paths).item)

RECURSIVE ExtractFrom(_)
ExtractFrom(paths) ==
    IF paths = <<>> THEN <<>>
    ELSE PathEndpoints(Head(paths).path, Head(paths).item) \o ExtractFrom(Tail(paths))

extract_endpoints(spec) == ExtractFrom(spec.paths)

(***************************************************************************)
(* serde_json::Value.  v is the content of a string and the literal text   *)
(* of a number, boolean or null; fields holds the [k, val] members of an   *)
(* object in the order of the map, and the elements of an array (k empty). *)
(***************************************************************************)
JNull == [t |-> "null", v |-> <<"n", "u", "l", "l">>, fields |-> <<>>]
JBool(b) == [t |-> "bool", v |-> IF b THEN <<"t", "r", "u", "e">> ELSE <<"f", "a", "l", "s", "e">>, fields |-> <<>>]
JNumber(literal) == [t |-> "number", v |-> literal, fields |-> <<>>]
JString(s) == [t |-> "string", v |-> s, fields |-> <<>>]
JObject(members) == [t |-> "object", v |-> <<>>, fields |-> members]
JArray(items) == [t |-> "array", v |-> <<>>, fields |-> items]
Member(k, val) == [k |-> k, val |-> val]

RECURSIVE escape(_)
\* The escaping of a string's content by the serde_json serializer.
escape(s) ==
    IF s = <<>> THEN <<>>
    ELSE (CASE Head(s) = "\"" -> <<"\\", "\"">>
            [] Head(s) = "\\" -> <<"\\", "\\">>
            [] Head(s) = "\n" -> <<"\\", "n">>
            [] OTHER -> <<Head(s)>>) \o escape(Tail(s))

Quoted(s) == <<"\"">> \o escape(s) \o <<"\"">>

RECURSIVE Indent(_)
Indent(n) == IF n = 0 THEN <<>> ELSE <<" ", " ">> \o Indent(n - 1)

RECURSIVE to_string(_), CompactMembers(_, _)
\* serde_json::Value::to_string: the compact JSON text.
to_string(value) ==
    CASE value.t = "string" -> Quoted(value.v)
      [] value.t \in {"null", "bool", "number"} -> value.v
      [] value.t = "object" -> <<"{">> \o CompactMembers(value.fields, TRUE) \o <<"}">>
      [] value.t = "array" -> <<"[">> \o CompactMembers(value.fields, FALSE) \o <<"]">>

CompactMembers(members, keyed) ==
    IF members = <<>> THEN <<>>
    ELSE (IF keyed THEN Quoted(Head(members).k) \o <<":">> ELSE <<>>)
            \o to_string(Head(members).val)
            \o (IF Tail(members) = <<>> THEN <<>> ELSE <<",">>)
            \o CompactMembers(Tail(members), keyed)

RECURSIVE PrettyAt(_, _), PrettyMembers(_, _, _)
\* serde_json::to_string_pretty at nesting depth n: two-space indentation,
\* one member per line, ": " after a key, "{}" and "[]" when empty.
PrettyAt(value, n) ==
    CASE value.t = "string" -> Quoted(value.v)
      [] value.t \in {"null", "bool", "number"} -> value.v
      [] value.t = "object" ->
            IF value.fields = <<>> THEN <<"{", "}">>
            ELSE <<"{", "\n">> \o PrettyMembers(value.fields, TRUE, n + 1)
                    \o <<"\n">> \o Indent(n) \o <<"}">>
      [] value.t = "array" ->
            IF value.fields = <<>> THEN <<"[", "]">>
            ELSE <<"[", "\n">> \o PrettyMembers(value.fields, FALSE, n + 1)
                    \o <<"\n">> \o Indent(n) \o <<"]">>

PrettyMembers(members, keyed, n) ==
    IF members = <<>> THEN <<>>
    ELSE Indent(n)
            \o (IF keyed THEN Quoted(Head(members).k) \o <<":", " ">> ELSE <<>>)
            \o PrettyAt(Head(members).val, n)
            \o (IF Tail(members) = <<>> THEN <<>> ELSE <<",", "\n">>)
            \o PrettyMembers(Tail(members), keyed, n)

to_string_pretty(value) == PrettyAt(value, 0)

\* Value::get(key): the member of an object under key, None otherwise.
get(value, key) ==
    IF value.t = "object" /\ \E i \in 1..Len(value.fields) : value.fields[i].k = key
    THEN Some(value.fields[CHOOSE i \in 1..Len(value.fields) : value.fields[i].k = key].val)
    ELSE None

\* Value::as_str
json_as_str(value) == IF value.t = "string" THEN Some(value.v) ELSE None

(***************************************************************************)
(* The response body texts of the model, and serde_json::from_str on them: *)
(* Some(value) for Ok(value), None for a parse error.                      *)
(***************************************************************************)
TextEmpty == <<>>
TextMessage == <<"{", "\"", "m", "e", "s", "s", "a", "g", "e", "\"", ":", "\"", "n", "f", "\"", "}">>
TextError == <<"{", "\"", "e", "r", "r", "o", "r", "\"", ":", "\"", "b", "a", "d", "\"", "}">>
TextMixed == <<"{", "\"", "e", "r", "r", "o", "r", "\"", ":", "\"", "b", "a", "d", "\"", ",", "\"", "m", "e", "s", "s", "a", "g", "e", "\"", ":", "7", "}">>
TextPlain == <<"s", "a", "y", " ", "\"", "h", "i", "\"">>

BodyTexts == {TextEmpty, TextMessage, TextError, TextMixed, TextPlain}

K_message == <<"m", "e", "s", "s", "a", "g", "e">>
K_error == <<"e", "r", "r", "o", "r">>
K_status == <<"s", "t", "a", "t", "u", "s">>

from_str(text) ==
    CASE text = TextMessage ->
            Some(JObject(<<Member(K_message, JString(<<"n", "f">>))>>))
      [] text = TextError ->
            Some(JObject(<<Member(K_error, JString(<<"b", "a", "d">>))>>))
      [] text = TextMixed ->
            Some(JObject(<<Member(K_error, JString(<<"b", "a", "d">>)),
                           Member(K_message, JNumber(<<"7">>))>>))
      [] OTHER -> None

(***************************************************************************)
(* swagger.rs: build_url.  path_params is a HashMap; order is the order in *)
(* which the loop meets its keys.                                          *)
(***************************************************************************)
Perms(S) ==
    {s \in [1..Cardinality(S) -> S] : \A i, j \in 1..Cardinality(S) : s[i] = s[j] => i = j}

RECURSIVE SubstituteAll(_, _, _)
SubstituteAll(url, order, path_params) ==
    IF order = <<>> THEN url
    ELSE SubstituteAll(replace(url, <<"{">> \o Head(order) \o <<"}">>, path_params[Head(order)]),
                       Tail(order), path_params)

build_url_NoTrim(base, path, path_params, order) ==
    SubstituteAll(base \o path, order, path_params)

build_url(base, path, path_params, order) ==
    SubstituteAll(trim_end_matches(base, "/") \o path, order, path_params)

(***************************************************************************)
(* pangolin_client.rs                                                      *)
(***************************************************************************)
Statuses == {200, 404}

\* StatusCode::is_success
is_success(status) == status >= 200 /\ status < 300

\* The Display form of a StatusCode: the code and its canonical reason.
status_display(status) ==
    CASE status = 200 -> "200 OK"
      [] status = 404 -> "404 Not Found"

client_request_AlwaysJson(method, path, path_params, order, query_params, body) ==
    [method |-> method,
     url |-> build_url(client.base_url, path, path_params, order),
     authorization |-> "Bearer " \o Str(client.api_key),
     query |-> IF DOMAIN query_params = {} THEN None ELSE Some(query_params),
     content_type |-> Some("application/json"),
     json |-> IF IsSome(body) THEN body ELSE Some(EmptyMap)]

\* PangolinClient::call up to request.send(): the request handed to reqwest.
client_request(method, path, path_params, order, query_params, body) ==
    [method |-> method,
     url |-> build_url(client.base_url, path, path_params, order),
     authorization |-> "Bearer " \o Str(client.api_key),
     query |-> IF DOMAIN query_params = {} THEN None ELSE Some(query_params),
     content_type |-> IF IsSome(body) THEN Some("application/json") ELSE None,
     json |-> body]

Ok(value) == [ok |-> TRUE, value |-> Some(value), error |-> ""]
Err(message) == [ok |-> FALSE, value |-> None, error |-> message]

error_msg_FallThrough(text) ==
    LET parsed == from_str(text)
        fromMessage ==
            IF IsSome(parsed) /\ IsSome(get(Unwrap(parsed), K_message))
            THEN json_as_str(Unwrap(get(Unwrap(parsed), K_message)))
            ELSE None
        fromError ==
            IF IsSome(parsed) /\ IsSome(get(Unwrap(parsed), K_error))
            THEN json_as_str(Unwrap(get(Unwrap(parsed), K_error)))
            ELSE None
    IN  IF IsSome(fromMessage) THEN Unwrap(fromMessage)
        ELSE IF IsSome(fromError) THEN Unwrap(fromError)
        ELSE text

\* The message of a non-success response: message, or else error, when it is
\* a string; otherwise the body text.
error_msg(text) ==
    LET parsed == from_str(text)
        field ==
            IF ~IsSome(parsed) THEN None
            ELSE IF IsSome(get(Unwrap(parsed), K_message)) THEN get(Unwrap(parsed), K_message)
            ELSE get(Unwrap(parsed), K_error)
        str == IF IsSome(field) THEN json_as_str(Unwrap(field)) ELSE None
    IN  IF IsSome(str) THEN Unwrap(str) ELSE text

success_json_NoEmptyCase(text) ==
    IF IsSome(from_str(text)) THEN Unwrap(from_str(text)) ELSE JString(text)

\* The JSON value of a success response.
success_json(text) ==
    IF text = <<>> THEN JObject(<<Member(K_status, JString(<<"s", "u", "c", "c", "e", "s", "s">>))>>)
    ELSE IF IsSome(from_str(text)) THEN Unwrap(from_str(text))
    ELSE JString(text)

\* PangolinClient::call from request.send() on: the Result it returns.  The
\* Display form of an anyhow error with a context is that context.
client_result(response) ==
    CASE response.outcome = "send_failed" ->
            Err("Failed to send request to Pangolin API")
      [] response.outcome = "read_failed" ->
            Err("Failed to read response")
      [] OTHER ->
            IF ~is_success(response.status)
            THEN Err("Pangolin API error (" \o status_display(response.status) \o "): "
                        \o Str(error_msg(response.text)))
            ELSE Ok(success_json(response.text))

(***************************************************************************)
(* service.rs                                                              *)
(***************************************************************************)
get_available_endpoints_Unfiltered == endpoints

get_available_endpoints ==
    LET Readable(e) == ~is_write_operation(e.method)
    IN  IF read_only THEN SelectSeq(endpoints, Readable) ELSE endpoints

\* iter().find(): the first endpoint of that name.
find_endpoint(name) ==
    LET hits == {i \in 1..Len(endpoints) : endpoints[i].name = name}
    IN  IF hits = {} THEN None
        ELSE Some(endpoints[CHOOSE i \in hits : \A j \in hits : i <= j])

\* The schema entry of one path or query parameter.
ParamEntry(param) ==
    [type |-> to_json_schema_type(param.param_type),
     description |-> param.description,
     default |-> param.default_value,
     enum |-> None]

\* The schema entry of one body property.
BodyEntry(prop) ==
    [type |-> to_json_schema_type(prop.param_type),
     description |-> prop.description,
     default |-> prop.default_value,
     enum |-> prop.enum_values]

RECURSIVE InsertParams(_, _)
\* properties.insert(param.name, ..) for each parameter in order.
InsertParams(properties, params) ==
    IF params = <<>> THEN properties
    ELSE InsertParams(InsertAll(properties, Entry(Head(params).name, ParamEntry(Head(params)))),
                      Tail(params))

RECURSIVE RequiredNames(_)
\* required.push(param.name) for each required parameter in order.
RequiredNames(params) ==
    IF params = <<>> THEN <<>>
    ELSE (IF Head(params).required THEN <<Head(params).name>> ELSE <<>>)
            \o RequiredNames(Tail(params))

RECURSIVE PushMissing(_, _)
\* The loop over body.required: push unless already contained.
PushMissing(required, fields) ==
    IF fields = <<>> THEN required
    ELSE PushMissing(IF Head(fields) \in Range(required)
                     THEN required
                     ELSE Append(required, Head(fields)),
                     Tail(fields))

RECURSIVE Join(_, _)
Join(strings, sep) ==
    IF strings = <<>> THEN ""
    ELSE IF Tail(strings) = <<>> THEN Head(strings)
    ELSE Head(strings) \o sep \o Join(Tail(strings), sep)

endpoint_to_mcp(endpoint) ==
    LET withParams ==
            InsertParams(InsertParams(EmptyMap, endpoint.path_params),
                         endpoint.query_params)
        paramRequired ==
            RequiredNames(endpoint.path_params) \o RequiredNames(endpoint.query_params)
        body == endpoint.request_body
        properties ==
            IF IsSome(body)
            THEN InsertAll(withParams,
                           [n \in DOMAIN Unwrap(body).properties |->
                                BodyEntry(Unwrap(body).properties[n])])
            ELSE withParams
        required ==
            IF IsSome(body) THEN PushMissing(paramRequired, Unwrap(body).required)
            ELSE paramRequired
        desc ==
            "[" \o as_str(endpoint.method) \o "] " \o endpoint.description
                \o (IF endpoint.tags # <<>>
                    THEN " (Tags: " \o Join(endpoint.tags, ", ") \o ")"
                    ELSE "")
    IN  [name |-> endpoint.name,
         description |-> Some(desc),
         input_schema |->
            [type |-> "object",
             properties |-> properties,
             required |-> IF required # <<>> THEN Some(required) ELSE None]]

RECURSIVE MapTools(_)
MapTools(available) ==
    IF available = <<>> THEN <<>>
    ELSE <<endpoint_to_mcp(Head(available))>> \o MapTools(Tail(available))

\* The ListToolsResult of list_tools.
list_tools == [tools |-> MapTools(get_available_endpoints), next_cursor |-> None]

value_to_string(value) ==
    CASE value.t = "string" -> value.v
      [] value.t = "number" -> value.v
      [] value.t = "bool" -> value.v
      [] value.t = "null" -> <<>>
      [] OTHER -> to_string(value)

\* Result<CallToolResult, ErrorData>
CallToolResult(text, is_error) ==
    [kind |-> "CallToolResult", is_error |-> Some(is_error), text |-> text,
     code |-> "none"]
InvalidParams_AsResult(message) ==
    [kind |-> "CallToolResult", is_error |-> Some(TRUE), text |-> message,
     code |-> "none"]

\* ErrorData::invalid_params
InvalidParams(message) ==
    [kind |-> "ErrorData", is_error |-> None, text |-> message,
     code |-> "invalid_params"]

RECURSIVE InsertPresent_OrEmpty(_, _, _)
InsertPresent_OrEmpty(bucket, params, args) ==
    IF params = <<>> THEN bucket
    ELSE InsertPresent_OrEmpty(
            InsertAll(bucket,
                      Entry(Head(params).name,
                            IF Head(params).name \in DOMAIN args
                            THEN value_to_string(args[Head(params).name])
                            ELSE <<>>)),
            Tail(params), args)

RECURSIVE InsertPresent(_, _, _)
\* bucket.insert(param.name, value_to_string(value)) for each declared
\* parameter that args holds, in declared order.
InsertPresent(bucket, params, args) ==
    IF params = <<>> THEN bucket
    ELSE InsertPresent(IF Head(params).name \in DOMAIN args
                       THEN InsertAll(bucket, Entry(Head(params).name,
                                                    value_to_string(args[Head(params).name])))
                       ELSE bucket,
                       Tail(params), args)

FirstMissing_IgnoreRequired(params, args) == None

RECURSIVE FirstMissing(_, _)
\* The path-parameter loop's early return: the first declared parameter, in
\* declared order, that args lacks and that is required.
FirstMissing(params, args) ==
    IF params = <<>> THEN None
    ELSE IF Head(params).name \notin DOMAIN args /\ Head(params).required
    THEN Some(Head(params).name)
    ELSE FirstMissing(Tail(params), args)

ParamNames(params) == {params[i].name : i \in 1..Len(params)}

body_of_All(endpoint, args) ==
    LET keys == IF IsSome(endpoint.request_body) THEN DOMAIN args ELSE {}
    IN  IF keys = {} THEN None ELSE Some([k \in keys |-> args[k]])

\* The body argument of client.call: None when body_params stays empty.
body_of(endpoint, args) ==
    LET keys == IF IsSome(endpoint.request_body)
                THEN {k \in DOMAIN args :
                        k \notin ParamNames(endpoint.path_params)
                        /\ k \notin ParamNames(endpoint.query_params)}
                ELSE {}
    IN  IF keys = {} THEN None ELSE Some([k \in keys |-> args[k]])

blocked_message(tool_name) ==
    "Error: Write operation '" \o Str(tool_name)
        \o "' is not allowed in read-only mode. "
        \o "The server is configured with PANGOLIN_READ_ONLY=true."

\* The match on the Result of client.call that ends call_tool.
call_tool_result_Propagate(result) ==
    IF result.ok
    THEN CallToolResult(Str(to_string_pretty(Unwrap(result.value))), FALSE)
    ELSE InvalidParams("Error: " \o result.error)

call_tool_result(result) ==
    IF result.ok
    THEN CallToolResult(Str(to_string_pretty(Unwrap(result.value))), FALSE)
    ELSE CallToolResult("Error: " \o result.error, TRUE)

(***************************************************************************)
(* Documents (the structs of swagger.rs).                                  *)
(***************************************************************************)
Parameter(name, location, required, type) ==
    [name |-> name, location |-> location, required |-> required,
     description |-> None,
     schema |-> Some([schema_type |-> Some(type), format |-> None,
                      default |-> None, enum_values |-> None])]

SchemaProperty(type) ==
    [schema_type |-> Some(type), description |-> None, format |-> None,
     default |-> None, enum_values |-> None, nullable |-> None,
     min_length |-> None, max_length |-> None, minimum |-> None,
     maximum |-> None, pattern |-> None, items |-> None]

Schema(properties, required, all_of, any_of, one_of) ==
    [schema_type |-> Some("object"), properties |-> properties,
     required |-> required, all_of |-> all_of, any_of |-> any_of,
     one_of |-> one_of]

\* A request body whose content map holds application/json only.
JsonBody(schema) ==
    [required |-> FALSE,
     content |-> <<[media |-> "application/json",
                    media_type |-> [schema |-> Some(schema)]]>>]

Operation(description, summary, tags, parameters, request_body) ==
    [description |-> description, summary |-> summary, tags |-> tags,
     parameters |-> parameters, request_body |-> request_body]

PathItem(get_op, post_op, put_op, delete_op, patch_op) ==
    [get |-> get_op, post |-> post_op, put |-> put_op,
     delete |-> delete_op, patch |-> patch_op]

SwaggerSpec(paths) ==
    [openapi |-> "3.0.0", info |-> [title |-> "Pangolin", version |-> "v1"],
     servers |-> <<>>, paths |-> paths]

K_orgId == <<"o", "r", "g", "I", "d">>
K_q == <<"q">>
K_name == <<"n", "a", "m", "e">>

PathOrg == <<"/", "o", "r", "g", "/", "{", "o", "r", "g", "I", "d", "}">>
PathUpdate == <<"/", "u", "p", "d", "a", "t", "e", "_", "o", "r", "g", "_", "b", "y", "_", "o", "r", "g", "I", "d">>

\* The document the service specification serves.  /org/{orgId} declares
\* all five methods: GET with one required path parameter and nothing else;
\* POST with a required query parameter and a body; PUT with a body one of
\* whose properties is named like the path parameter; DELETE with an
\* optional path parameter; PATCH with two required path parameters and a
\* body schema without properties.  GET /update_org_by_orgId generates the
\* name that POST /org/{orgId} generates.
ServiceDoc ==
    SwaggerSpec(<<
        [path |-> PathOrg,
         item |-> PathItem(
            Some(Operation(Some("Get an organization"), None, <<"Organization">>,
                           <<Parameter(K_orgId, "path", TRUE, "string")>>, None)),
            Some(Operation(Some("Update an organization"), None, <<"Organization">>,
                           <<Parameter(K_orgId, "path", TRUE, "string"),
                             Parameter(K_q, "query", TRUE, "integer")>>,
                           Some(JsonBody(Schema(
                                Some(Entry(K_name, SchemaProperty("string"))),
                                Some(<<K_name>>), None, None, None))))),
            Some(Operation(None, Some("Create"), <<>>,
                           <<Parameter(K_orgId, "path", TRUE, "string")>>,
                           Some(JsonBody(Schema(
                                Some(InsertAll(Entry(K_name, SchemaProperty("string")),
                                               Entry(K_orgId, SchemaProperty("integer")))),
                                None, None, None, None))))),
            Some(Operation(None, None, <<>>,
                           <<Parameter(K_orgId, "path", FALSE, "string")>>, None)),
            Some(Operation(None, None, <<"Organization", "Admin">>,
                           <<Parameter(K_orgId, "path", TRUE, "string"),
                             Parameter(K_q, "path", TRUE, "string")>>,
                           Some(JsonBody(Schema(None, None, None, None, None))))))],
        [path |-> PathUpdate,
         item |-> PathItem(
            Some(Operation(Some("Shadowed"), None, <<>>, <<>>, None)),
            None, None, None, None)]
    >>)

\* The documents of the extraction specification: at most MaxPaths distinct
\* paths, each declaring one of these sets of methods with a plain operation.
ExtractPaths == {<<"/">>, <<"/", "a", "-", "b">>, <<"/", "a", "/", "b">>, <<"/", "{", "x", "}">>}

MethodSets ==
    {{}, {"GET"}, {"POST"}, {"PUT"}, {"DELETE"}, {"PATCH"},
     {"GET", "POST"}, {"PUT", "DELETE", "PATCH"}, HttpMethod}

PlainOperation == Operation(None, None, <<>>, <<>>, None)

ItemOf(methods) ==
    PathItem(IF "GET" \in methods THEN Some(PlainOperation) ELSE None,
             IF "POST" \in methods THEN Some(PlainOperation) ELSE None,
             IF "PUT" \in methods THEN Some(PlainOperation) ELSE None,
             IF "DELETE" \in methods THEN Some(PlainOperation) ELSE None,
             IF "PATCH" \in methods THEN Some(PlainOperation) ELSE None)

PathEntries == {[path |-> p, item |-> ItemOf(m)] : p \in ExtractPaths, m \in MethodSets}

ExtractDocs ==
    {SwaggerSpec(paths) :
        paths \in {ps \in UNION {[1..n -> PathEntries] : n \in 0..MaxPaths} :
                    \A i, j \in 1..Len(ps) : ps[i].path = ps[j].path => i = j}}

(***************************************************************************)
(* The inputs of call_tool.                                                *)
(***************************************************************************)
ArgKeys == {K_orgId, K_q, K_name}

ValuesFor(k) ==
    CASE k = K_orgId -> {JString(<<"a", "b", "c">>)}
      [] k = K_q -> {JNumber(<<"7">>)}
      [] k = K_name -> {JNull}

ArgMaps ==
    UNION {{m \in [S -> UNION {ValuesFor(k) : k \in ArgKeys}] :
                \A k \in S : m[k] \in ValuesFor(k)} : S \in SUBSET ArgKeys}

\* request.arguments: Option<Map>
Arguments == {None} \union {Some(m) : m \in ArgMaps}

UnknownName == <<"n", "o", "p", "e">>

ToolNames == {endpoints[i].name : i \in 1..Len(endpoints)} \union {UnknownName}

BaseUrls == {<<"h", "t", "t", "p", "s", ":", "/", "/", "h", "/", "v", "1", "/">>}
ApiKey == <<"k", "e", "y">>

Calls == 1..MaxCalls

Idle ==
    [pc |-> "idle", name |-> <<>>, arguments |-> None, request |-> None,
     response |-> None, result |-> None]

(***************************************************************************)
(* PangolinService::new: the client is built, the endpoints are extracted  *)
(* once and the flag is stored.                                            *)
(***************************************************************************)
New ==
    /\ phase = "parsed"
    /\ phase' = "serving"
    /\ client' = [base_url |-> base_url, api_key |-> ApiKey]
    /\ endpoints' = extract_endpoints(doc)
    /\ UNCHANGED <<doc, base_url, read_only, calls, listed>>

(***************************************************************************)
(* list_tools                                                              *)
(***************************************************************************)
ListTools_Caching ==
    /\ phase = "serving"
    /\ listed' = Some(list_tools)
    /\ endpoints' = get_available_endpoints
    /\ UNCHANGED <<doc, phase, base_url, client, read_only, calls>>

ListTools ==
    /\ phase = "serving"
    /\ listed' = Some(list_tools)
    /\ UNCHANGED <<doc, phase, base_url, client, read_only, endpoints, calls>>

(***************************************************************************)
(* call_tool up to the await of client.call: the lookup, the read-only     *)
(* check, the partition of the arguments and the request.  The call either *)
(* returns at once or is left awaiting the HTTP response.                  *)
(***************************************************************************)
Finished(name, arguments, result) ==
    [pc |-> "done", name |-> name, arguments |-> arguments, request |-> None,
     response |-> None, result |-> Some(result)]

CallTool_ValidateFirst(c, tool_name, arguments) ==
    /\ phase = "serving"
    /\ calls[c].pc = "idle"
    /\ LET found == find_endpoint(tool_name)
           endpoint == Unwrap(found)
           args == IF IsSome(arguments) THEN Unwrap(arguments) ELSE EmptyMap
           path_params == InsertPresent(EmptyMap, endpoint.path_params, args)
           query_params == InsertPresent(EmptyMap, endpoint.query_params, args)
           missing == FirstMissing(endpoint.path_params, args)
       IN  IF ~IsSome(found)
           THEN calls' = [calls EXCEPT ![c] =
                    Finished(tool_name, arguments,
                             InvalidParams("Unknown tool: " \o Str(tool_name)))]
           ELSE IF IsSome(missing)
           THEN calls' = [calls EXCEPT ![c] =
                    Finished(tool_name, arguments,
                             InvalidParams("Missing required path parameter: "
                                              \o Str(Unwrap(missing))))]
           ELSE IF read_only /\ is_write_operation(endpoint.method)
           THEN calls' = [calls EXCEPT ![c] =
                    Finished(tool_name, arguments,
                             CallToolResult(blocked_message(tool_name), TRUE))]
           ELSE \E order \in Perms(DOMAIN path_params) :
                    calls' = [calls EXCEPT ![c] =
                        [pc |-> "awaiting", name |-> tool_name,
                         arguments |-> arguments,
                         request |-> Some(client_request(endpoint.method, endpoint.path,
                                                         path_params, order, query_params,
                                                         body_of(endpoint, args))),
                         response |-> None, result |-> None]]
    /\ UNCHANGED <<doc, phase, base_url, client, read_only, endpoints, listed>>

CallTool(c, tool_name, arguments) ==
    /\ phase = "serving"
    /\ calls[c].pc = "idle"
    /\ LET found == find_endpoint(tool_name)
           endpoint == Unwrap(found)
           args == IF IsSome(arguments) THEN Unwrap(arguments) ELSE EmptyMap
           path_params == InsertPresent(EmptyMap, endpoint.path_params, args)
           query_params == InsertPresent(EmptyMap, endpoint.query_params, args)
           missing == FirstMissing(endpoint.path_params, args)
       IN  IF ~IsSome(found)
           THEN calls' = [calls EXCEPT ![c] =
                    Finished(tool_name, arguments,
                             InvalidParams("Unknown tool: " \o Str(tool_name)))]
           ELSE IF read_only /\ is_write_operation(endpoint.method)
           THEN calls' = [calls EXCEPT ![c] =
                    Finished(tool_name, arguments,
                             CallToolResult(blocked_message(tool_name), TRUE))]
           ELSE IF IsSome(missing)
           THEN calls' = [calls EXCEPT ![c] =
                    Finished(tool_name, arguments,
                             InvalidParams("Missing required path parameter: "
                                              \o Str(Unwrap(missing))))]
           ELSE \E order \in Perms(DOMAIN path_params) :
                    calls' = [calls EXCEPT ![c] =
                        [pc |-> "awaiting", name |-> tool_name,
                         arguments |-> arguments,
                         request |-> Some(client_request(endpoint.method, endpoint.path,
                                                         path_params, order, query_params,
                                                         body_of(endpoint, args))),
                         response |-> None, result |-> None]]
    /\ UNCHANGED <<doc, phase, base_url, client, read_only, endpoints, listed>>

(***************************************************************************)
(* The HTTP collaborator answers an awaiting call, and call_tool runs to   *)
(* its end: send() fails, the body cannot be read, or a status and a body  *)
(* text arrive.                                                            *)
(***************************************************************************)
Complete_Retry(c, response) ==
    /\ phase = "serving"
    /\ calls[c].pc = "awaiting"
    /\ calls' = [calls EXCEPT ![c] =
            IF client_result(response).ok
            THEN [@ EXCEPT !.pc = "done",
                           !.response = Some(response),
                           !.result = Some(call_tool_result(client_result(response)))]
            ELSE [@ EXCEPT !.response = Some(response)]]
    /\ UNCHANGED <<doc, phase, base_url, client, read_only, endpoints, listed>>

Complete(c, response) ==
    /\ phase = "serving"
    /\ calls[c].pc = "awaiting"
    /\ calls' = [calls EXCEPT ![c] =
            [@ EXCEPT !.pc = "done",
                      !.response = Some(response),
                      !.result = Some(call_tool_result(client_result(response)))]]
    /\ UNCHANGED <<doc, phase, base_url, client, read_only, endpoints, listed>>

SendFails(c) ==
    Complete(c, [outcome |-> "send_failed", status |-> 0, text |-> <<>>])

ReadFails(c, status) ==
    Complete(c, [outcome |-> "read_failed", status |-> status, text |-> <<>>])

Respond(c, status, text) ==
    Complete(c, [outcome |-> "received", status |-> status, text |-> text])

\* The protocol layer takes the result; the slot serves the next invocation.
Return(c) ==
    /\ calls[c].pc = "done"
    /\ calls' = [calls EXCEPT ![c] = Idle]
    /\ UNCHANGED <<doc, phase, base_url, client, read_only, endpoints, listed>>

(***************************************************************************)
(* The service specification: the state after construction over            *)
(* ServiceDoc, then any interleaving of list_tools and call_tool.          *)
(***************************************************************************)
Init ==
    /\ doc = ServiceDoc
    /\ phase = "serving"
    /\ base_url \in BaseUrls
    /\ client = [base_url |-> base_url, api_key |-> ApiKey]
    /\ read_only \in BOOLEAN
    /\ endpoints = extract_endpoints(doc)
    /\ calls = [c \in Calls |-> Idle]
    /\ listed = None

Next ==
    \/ ListTools
    \/ \E c \in Calls, n \in ToolNames, a \in Arguments : CallTool(c, n, a)
    \/ \E c \in Calls : SendFails(c)
    \/ \E c \in Calls, st \in Statuses : ReadFails(c, st)
    \/ \E c \in Calls, st \in Statuses, text \in BodyTexts : Respond(c, st, text)
    \/ \E c \in Calls : Return(c)

Spec == Init /\ [][Next]_vars

(***************************************************************************)
(* The extraction specification: any document within the bounds is         *)
(* parsed, the service is constructed from it, and tools are listed.       *)
(***************************************************************************)
InitExtract ==
    /\ doc \in ExtractDocs
    /\ phase = "parsed"
    /\ base_url \in BaseUrls
    /\ client = None
    /\ read_only \in BOOLEAN
    /\ endpoints = <<>>
    /\ calls = [c \in Calls |-> Idle]
    /\ listed = None

NextExtract ==
    \/ New
    \/ ListTools

SpecExtract == InitExtract /\ [][NextExtract]_vars

(***************************************************************************)
(* Properties.                                                             *)
(***************************************************************************)
WriteMethods == {"POST", "PUT", "DELETE", "PATCH"}

\* The call in slot c has been made (it awaits its response or has returned).
Made(c) == calls[c].pc \in {"awaiting", "done"}

\* The first operation of the canonical list under the name of call c.
Resolves(c) == \E i \in 1..Len(endpoints) : endpoints[i].name = calls[c].name

Resolved(c) ==
    endpoints[CHOOSE i \in 1..Len(endpoints) :
                /\ endpoints[i].name = calls[c].name
                /\ \A j \in 1..(i - 1) : endpoints[j].name # calls[c].name]

ArgsOf(c) ==
    IF IsSome(calls[c].arguments) THEN Unwrap(calls[c].arguments) ELSE EmptyMap

\* Call c returned a call result whose error flag is flag.
ReturnedResult(c, flag) ==
    /\ calls[c].pc = "done"
    /\ Unwrap(calls[c].result).kind = "CallToolResult"
    /\ Unwrap(calls[c].result).is_error = Some(flag)

\* Call c failed with a protocol-level error (ErrorData, invalid params).
ReturnedProtocolError(c) ==
    /\ calls[c].pc = "done"
    /\ Unwrap(calls[c].result).kind = "ErrorData"
    /\ Unwrap(calls[c].result).code = "invalid_params"

\* The HTTP collaborator was not contacted for call c.
NotContacted(c) == calls[c].request = None /\ calls[c].response = None

\* C1: under read_only=true, every call whose name resolves to a POST, PUT,
\* DELETE or PATCH operation, whatever its arguments, returns a call result
\* (not a protocol error) with error=true whose content contains the
\* operation name, and the HTTP collaborator is never contacted.
C1_ReadOnlyBlocksWrites ==
    \A c \in Calls :
        (Made(c) /\ read_only /\ Resolves(c) /\ Resolved(c).method \in WriteMethods)
        => /\ ReturnedResult(c, TRUE)
           /\ NotContacted(c)
           /\ \E before \in {"Error: Write operation '"},
                 after \in {"' is not allowed in read-only mode. The server is configured with PANGOLIN_READ_ONLY=true."} :
                    Unwrap(calls[c].result).text = before \o Str(calls[c].name) \o after

C1_Witness ==
    \E c \in Calls :
        /\ calls[c].pc = "done" /\ read_only /\ Resolves(c)
        /\ Resolved(c).method = "PATCH"
        /\ K_orgId \in DOMAIN ArgsOf(c)
        /\ Unwrap(calls[c].result).is_error = Some(TRUE)

IsGet(e) == e.method = "GET"

\* C2: list_operations under read_only=true returns exactly the operations
\* whose method is GET, in extraction order, so never more than the
\* unfiltered list; under read_only=false it returns every operation.
C2_ListIsGetOnly ==
    IsSome(listed) =>
        LET tools == Unwrap(listed).tools
            expected == IF read_only THEN SelectSeq(endpoints, IsGet) ELSE endpoints
        IN  /\ Len(tools) = Len(expected)
            /\ Len(tools) <= Len(endpoints)
            /\ \A i \in 1..Len(tools) :
                /\ tools[i].name = expected[i].name
                /\ tools[i].description =
                        Some("[" \o expected[i].method \o "] " \o expected[i].description)

C2_Witness ==
    /\ IsSome(listed) /\ read_only
    /\ Len(Unwrap(listed).tools) = 2
    /\ Len(endpoints) = 7
    /\ \E i \in 1..Len(endpoints) : endpoints[i].method = "PATCH"

\* C3: a call whose name matches no operation of the canonical list fails
\* with a protocol-level invalid-request error, not with a call result, and
\* the HTTP collaborator is not contacted, in read-only and read-write mode.
C3_UnknownNameIsProtocolError ==
    \A c \in Calls :
        (Made(c) /\ ~Resolves(c))
        => /\ ReturnedProtocolError(c)
           /\ NotContacted(c)
           /\ Unwrap(calls[c].result).text = "Unknown tool: " \o Str(calls[c].name)

C3_Witness ==
    \E c \in Calls :
        /\ calls[c].pc = "done" /\ read_only
        /\ calls[c].name = UnknownName
        /\ Unwrap(calls[c].result).kind = "ErrorData"

\* Parameter i of the sequence is required and absent from args.
Lacks(params, i, args) == params[i].required /\ params[i].name \notin DOMAIN args

\* C4: when the name resolves, the access policy permits the operation and
\* some required path parameter is absent from the arguments, the call fails
\* with a protocol-level invalid-request error naming such a parameter (the
\* first one in declared order), not with a call result, and the HTTP
\* collaborator is not contacted.
C4_MissingPathParamIsProtocolError ==
    \A c \in Calls :
        (/\ Made(c) /\ Resolves(c)
         /\ ~(read_only /\ Resolved(c).method \in WriteMethods)
         /\ \E i \in 1..Len(Resolved(c).path_params) :
                Lacks(Resolved(c).path_params, i, ArgsOf(c)))
        => /\ ReturnedProtocolError(c)
           /\ NotContacted(c)
           /\ \E i \in 1..Len(Resolved(c).path_params) :
                /\ Lacks(Resolved(c).path_params, i, ArgsOf(c))
                /\ \A j \in 1..(i - 1) : ~Lacks(Resolved(c).path_params, j, ArgsOf(c))
                /\ Unwrap(calls[c].result).text =
                        "Missing required path parameter: "
                            \o Str(Resolved(c).path_params[i].name)

C4_Witness ==
    \E c \in Calls :
        /\ calls[c].pc = "done" /\ Resolves(c)
        /\ Resolved(c).method = "PATCH"
        /\ DOMAIN ArgsOf(c) = {K_orgId, K_name}
        /\ Unwrap(calls[c].result).text = "Missing required path parameter: q"

\* C5: when the HTTP collaborator reports a transport failure for a
\* dispatched call, the call returns a call result with error=true and
\* content "Error: <detail>"; it is never a protocol-level error.
C5_TransportFailureIsErrorResult ==
    \A c \in Calls :
        (/\ calls[c].pc = "done" /\ IsSome(calls[c].response)
         /\ Unwrap(calls[c].response).outcome \in {"send_failed", "read_failed"})
        => /\ ReturnedResult(c, TRUE)
           /\ Unwrap(calls[c].result).text =
                "Error: " \o (IF Unwrap(calls[c].response).outcome = "send_failed"
                              THEN "Failed to send request to Pangolin API"
                              ELSE "Failed to read response")

C5_Witness ==
    \E c \in Calls :
        /\ calls[c].pc = "done" /\ IsSome(calls[c].request)
        /\ Unwrap(calls[c].response).outcome = "send_failed"
        /\ Unwrap(calls[c].result).text = "Error: Failed to send request to Pangolin API"

\* Call c received a response with this kind of status.
Received(c, success) ==
    /\ calls[c].pc = "done" /\ IsSome(calls[c].response)
    /\ Unwrap(calls[c].response).outcome = "received"
    /\ (Unwrap(calls[c].response).status \in 200..299) = success

\* The message the claim describes for each body text of the model: the
\* message field, else the error field, when it is a string; else the text.
ExpectedMessage(text) ==
    CASE text = TextMessage -> "nf"
      [] text = TextError -> "bad"
      [] text = TextMixed -> "{\"error\":\"bad\",\"message\":7}"
      [] text = TextPlain -> "say \"hi\""
      [] text = TextEmpty -> ""

ExpectedStatus(status) ==
    CASE status = 404 -> "404 Not Found"
      [] status = 200 -> "200 OK"

\* C6, as stated: on a non-success status the content is exactly
\* "Pangolin API error (<status>): <message>".
C6_ContentIsApiErrorOnly ==
    \A c \in Calls :
        Received(c, FALSE)
        => /\ ReturnedResult(c, TRUE)
           /\ Unwrap(calls[c].result).text =
                "Pangolin API error (" \o ExpectedStatus(Unwrap(calls[c].response).status)
                    \o "): " \o ExpectedMessage(Unwrap(calls[c].response).text)

\* C6, amended: on a non-success status the call returns a call result with
\* error=true whose content is exactly
\* "Error: Pangolin API error (<status>): <message>", where <message> is the
\* body's message field, or its error field when it has no message field,
\* if that field is a string, and the raw body text otherwise.
C6_ContentIsPrefixedApiError ==
    \A c \in Calls :
        Received(c, FALSE)
        => /\ ReturnedResult(c, TRUE)
           /\ Unwrap(calls[c].result).text =
                "Error: Pangolin API error ("
                    \o ExpectedStatus(Unwrap(calls[c].response).status)
                    \o "): " \o ExpectedMessage(Unwrap(calls[c].response).text)

C6_Witness ==
    \E c \in Calls :
        /\ Received(c, FALSE)
        /\ Unwrap(calls[c].response).text = TextMixed
        /\ Unwrap(calls[c].result).is_error = Some(TRUE)

\* The pretty-printed JSON the claim describes for each body text.
ExpectedPretty(text) ==
    CASE text = TextEmpty -> "{\n  \"status\": \"success\"\n}"
      [] text = TextMessage -> "{\n  \"message\": \"nf\"\n}"
      [] text = TextError -> "{\n  \"error\": \"bad\"\n}"
      [] text = TextMixed -> "{\n  \"error\": \"bad\",\n  \"message\": 7\n}"
      [] text = TextPlain -> "\"say \\\"hi\\\"\""

\* C7: on a success status the call returns a call result with error=false
\* whose content is the pretty-printed form of {"status":"success"} when the
\* body text is empty, else of the body parsed as JSON, else of the raw body
\* text as a JSON string value.
C7_SuccessIsPrettyPrinted ==
    \A c \in Calls :
        Received(c, TRUE)
        => /\ ReturnedResult(c, FALSE)
           /\ Unwrap(calls[c].result).text =
                ExpectedPretty(Unwrap(calls[c].response).text)

C7_Witness ==
    \E c \in Calls :
        /\ Received(c, TRUE)
        /\ Unwrap(calls[c].response).text = TextEmpty
        /\ Unwrap(calls[c].result).text = "{\n  \"status\": \"success\"\n}"

\* Operation e is a GET with exactly one path parameter, which is required,
\* no query parameter and no request body.
PlainGet(e) ==
    /\ e.method = "GET"
    /\ Len(e.path_params) = 1 /\ e.path_params[1].required
    /\ e.query_params = <<>>
    /\ e.request_body = None

\* C8: dispatching GET /org/{orgId} (one required path parameter, no query
\* parameter, no body) with orgId "abc" sends exactly a GET request to
\* <base>/org/abc with no body and no query string, and a successful JSON
\* response is returned pretty-printed as the result content.
C8_GetOrgRequest ==
    \A c \in Calls :
        (/\ Made(c) /\ Resolves(c) /\ PlainGet(Resolved(c))
         /\ Resolved(c).path = PathOrg
         /\ K_orgId \in DOMAIN ArgsOf(c)
         /\ ArgsOf(c)[K_orgId] = JString(<<"a", "b", "c">>))
        => /\ IsSome(calls[c].request)
           /\ Unwrap(calls[c].request).method = "GET"
           /\ Str(Unwrap(calls[c].request).url) = "https://h/v1/org/abc"
           /\ Unwrap(calls[c].request).query = None
           /\ Unwrap(calls[c].request).json = None
           /\ Unwrap(calls[c].request).content_type = None
           /\ (Received(c, TRUE) /\ Unwrap(calls[c].response).text = TextMessage)
                => /\ ReturnedResult(c, FALSE)
                   /\ Unwrap(calls[c].result).text = "{\n  \"message\": \"nf\"\n}"

C8_Witness ==
    \E c \in Calls :
        /\ Received(c, TRUE) /\ Resolves(c) /\ PlainGet(Resolved(c))
        /\ ArgsOf(c) = Entry(K_orgId, JString(<<"a", "b", "c">>))
        /\ Unwrap(calls[c].response).text = TextMessage
        /\ Str(Unwrap(calls[c].request).url) = "https://h/v1/org/abc"

\* Method is declared by this path item.
Declared(item, method) ==
    CASE method = "GET" -> IsSome(item.get)
      [] method = "POST" -> IsSome(item.post)
      [] method = "PUT" -> IsSome(item.put)
      [] method = "DELETE" -> IsSome(item.delete)
      [] method = "PATCH" -> IsSome(item.patch)

\* The methods the i-th path of the document declares.
PairsOf(i) == {m \in HttpMethod : Declared(doc.paths[i].item, m)}

RECURSIVE DeclaredCount(_)
DeclaredCount(n) == IF n = 0 THEN 0 ELSE Cardinality(PairsOf(n)) + DeclaredCount(n - 1)

\* C9: extract produces exactly one Operation per (path, declared method)
\* pair: the length of the result is the sum over all paths of the number
\* of the five methods present, and no pair is skipped or emitted twice.
C9_OneOperationPerPair ==
    phase = "serving" =>
        /\ Len(endpoints) = DeclaredCount(Len(doc.paths))
        /\ \A i, j \in 1..Len(endpoints) :
                (endpoints[i].path = endpoints[j].path
                    /\ endpoints[i].method = endpoints[j].method) => i = j
        /\ {<<endpoints[i].path, endpoints[i].method>> : i \in 1..Len(endpoints)}
                = UNION {{<<doc.paths[i].path, m>> : m \in PairsOf(i)} :
                            i \in 1..Len(doc.paths)}

C9_Witness ==
    /\ phase = "serving"
    /\ Len(doc.paths) = 2
    /\ PairsOf(1) = HttpMethod /\ PairsOf(2) = {"PUT", "DELETE", "PATCH"}
    /\ Len(endpoints) = 8

\* C10: in the Operation list produced by extract, no two operations have
\* the same generated name.
C10_NamesUnique ==
    phase = "serving" =>
        \A i, j \in 1..Len(endpoints) :
            endpoints[i].name = endpoints[j].name => i = j

(***************************************************************************)
(* The naming specification: a document with one path, drawn from every    *)
(* text of at most MaxLen characters over NameAlphabet and from the paths  *)
(* of the unit tests, declaring one method; the service is constructed     *)
(* from it and tools are listed.                                           *)
(***************************************************************************)
MaxLen == 4   \* characters of a path of the naming specification

NameAlphabet == {"/", "-", "{", "}", "a"}

PathOrgSite == <<"/", "o", "r", "g", "/", "{", "o", "r", "g", "I", "d", "}", "/", "s", "i", "t", "e">>

NamePaths ==
    UNION {[1..n -> NameAlphabet] : n \in 0..MaxLen} \union {PathOrg, PathOrgSite}

NameDocs ==
    {SwaggerSpec(<<[path |-> p, item |-> ItemOf({m})]>>) :
        p \in NamePaths, m \in HttpMethod}

InitName ==
    /\ doc \in NameDocs
    /\ phase = "parsed"
    /\ base_url \in BaseUrls
    /\ client = None
    /\ read_only = FALSE
    /\ endpoints = <<>>
    /\ calls = [c \in Calls |-> Idle]
    /\ listed = None

SpecName == InitName /\ [][NextExtract]_vars

\* The path without one leading "/".
StripOneSlash(s) == IF s # <<>> /\ Head(s) = "/" THEN Tail(s) ELSE s

\* The path from its first character other than "/".
StripEverySlash(s) ==
    LET others == {i \in 1..Len(s) : s[i] # "/"}
    IN  IF others = {} THEN <<>>
        ELSE SubSeq(s, CHOOSE i \in others : \A j \in others : i <= j, Len(s))

\* Every "/" and "-" as "_".
Underscored(s) == [i \in 1..Len(s) |-> IF s[i] \in {"/", "-"} THEN "_" ELSE s[i]]

\* The end of the placeholder that starts at position i of s, or 0: the
\* first "}" after i, when at least one character lies between the two.
PlaceholderEnd(s, i) ==
    LET closes == {j \in (i + 1)..Len(s) : s[j] = "}"}
        j == CHOOSE k \in closes : \A l \in closes : k <= l
    IN  IF s[i] = "{" /\ closes # {} /\ j > i + 1 THEN j ELSE 0

RECURSIVE WithBy(_, _)
\* s from position i on, every placeholder {x} as by_x.
WithBy(s, i) ==
    IF i > Len(s) THEN <<>>
    ELSE IF PlaceholderEnd(s, i) > 0
    THEN <<"b", "y", "_">> \o SubSeq(s, i + 1, PlaceholderEnd(s, i) - 1)
            \o WithBy(s, PlaceholderEnd(s, i) + 1)
    ELSE <<s[i]>> \o WithBy(s, i + 1)

NamePrefix(method) ==
    CASE method = "GET" -> <<>>
      [] method = "POST" -> <<"u", "p", "d", "a", "t", "e", "_">>
      [] method = "PUT" -> <<"c", "r", "e", "a", "t", "e", "_">>
      [] method = "DELETE" -> <<"d", "e", "l", "e", "t", "e", "_">>
      [] method = "PATCH" -> <<"p", "a", "t", "c", "h", "_">>

\* The name of (path, method) when stripped is the path without its leading
\* slash or slashes.
NameFrom(stripped, method) ==
    LET transformed == WithBy(Underscored(stripped), 1)
    IN  NamePrefix(method) \o (IF transformed = <<>> THEN <<"h", "e", "a", "l", "t", "h", "_", "c", "h", "e", "c", "k">> ELSE transformed)

MaxSubs == 2   \* sub-schemas of an allOf or anyOf list

K_a == <<"a">>
K_b == <<"b">>
K_n == <<"n">>

PathR == <<"/", "r", "/", "{", "b", "}">>

\* The sub-schemas of allOf, anyOf and oneOf lists.
LeafNString == Schema(Some(Entry(K_n, SchemaProperty("string"))), Some(<<K_n>>), None, None, None)
LeafNInteger == Schema(Some(Entry(K_n, SchemaProperty("integer"))), None, None, None, None)
LeafA == Schema(Some(Entry(K_a, SchemaProperty("boolean"))), Some(<<K_a>>), None, None, None)

SchemaLeaves == {LeafNString, LeafNInteger, LeafA}

\* Option<Vec<Schema>> of at most MaxSubs sub-schemas.
SubLists ==
    {None} \union {Some(l) : l \in UNION {[1..k -> SchemaLeaves] : k \in 0..MaxSubs}}

\* The direct properties and required fields of the body schema.
DirectParts ==
    {[properties |-> None, required |-> None],
     [properties |-> None, required |-> Some(<<K_n>>)],
     [properties |-> Some(Entry(K_n, SchemaProperty("number"))), required |-> Some(<<K_n>>)],
     [properties |-> Some(Entry(K_a, SchemaProperty("integer"))), required |-> Some(<<K_a>>)]}

BodySchemas ==
    {Schema(d.properties, d.required, all, any, one) :
        d \in DirectParts, all \in SubLists, any \in SubLists,
        one \in {None, Some(<<LeafA>>)}}

\* The content maps that hold something else than one application/json
\* entry with a schema.
OtherContents ==
    {<<>>,
     <<[media |-> "application/json", media_type |-> [schema |-> None]]>>,
     <<[media |-> "text/plain", media_type |-> [schema |-> Some(LeafA)]]>>,
     <<[media |-> "text/plain", media_type |-> [schema |-> Some(LeafA)]],
       [media |-> "application/json", media_type |-> [schema |-> Some(LeafNString)]]>>}

SchemaBodies ==
    {None} \union {Some(JsonBody(s)) : s \in BodySchemas}
        \union {Some([required |-> FALSE, content |-> c]) : c \in OtherContents}

ParamLists ==
    {<<>>,
     <<Parameter(K_a, "path", TRUE, "string"), Parameter(K_a, "query", TRUE, "integer")>>,
     <<Parameter(K_b, "path", TRUE, "string"), Parameter(K_n, "query", TRUE, "integer")>>}

SchemaDocs ==
    {SwaggerSpec(<<[path |-> PathR,
                    item |-> PathItem(None,
                                      Some(Operation(None, None, <<>>, params, body)),
                                      None, None, None)]>>) :
        params \in ParamLists, body \in SchemaBodies}

InitSchema ==
    /\ doc \in SchemaDocs
    /\ phase = "parsed"
    /\ base_url \in BaseUrls
    /\ client = None
    /\ read_only = FALSE
    /\ endpoints = <<>>
    /\ calls = [c \in Calls |-> Idle]
    /\ listed = None

SpecSchema == InitSchema /\ [][NextExtract]_vars

\* The operation of a document of the schema specification, as declared.
DeclaredOperation == Unwrap(doc.paths[1].item.post)

\* The schema of the declared request body that the content map offers
\* under application/json, or first when it has no such entry.
DeclaredSchema ==
    IF IsSome(DeclaredOperation.request_body)
            /\ IsSome(ChosenMedia(Unwrap(DeclaredOperation.request_body)))
    THEN Unwrap(ChosenMedia(Unwrap(DeclaredOperation.request_body))).media_type.schema
    ELSE None

\* The required array of the descriptor of the listed tool.
ListedRequired ==
    LET required == Unwrap(listed).tools[1].input_schema.required
    IN  IF IsSome(required) THEN Unwrap(required) ELSE <<>>

NoDuplicates(s) == \A i, j \in 1..Len(s) : s[i] = s[j] => i = j

\* C12: when the document's request body schema declares required fields,
\* the required array of the tool descriptor contains every one of those
\* field names and the name of every required path or query parameter, and
\* contains no name twice.
C12_RequiredIsDuplicateFreeUnion ==
    (IsSome(listed) /\ IsSome(DeclaredSchema)
        /\ DirectRequired(Unwrap(DeclaredSchema)) # <<>>)
    => /\ Range(DirectRequired(Unwrap(DeclaredSchema))) \subseteq Range(ListedRequired)
       /\ \A i \in 1..Len(DeclaredOperation.parameters) :
            DeclaredOperation.parameters[i].required
            => DeclaredOperation.parameters[i].name \in Range(ListedRequired)
       /\ NoDuplicates(ListedRequired)

(***************************************************************************)
(* The URL specification: the service over a document of three GET         *)
(* operations, two with optional path parameters (the path of the unit     *)
(* test of build_url and a path that uses one placeholder twice) and one   *)
(* whose placeholder no parameter declares; base URLs with and without     *)
(* trailing slashes; arguments whose values are plain texts or hold the    *)
(* text of a placeholder.                                                  *)
(***************************************************************************)
K_siteId == <<"s", "i", "t", "e", "I", "d">>

PathOrgSiteId == <<"/", "o", "r", "g", "/", "{", "o", "r", "g", "I", "d", "}", "/", "s", "i", "t", "e", "/", "{", "s", "i", "t", "e", "I", "d", "}">>
PathABA == <<"/", "{", "a", "}", "/", "{", "b", "}", "/", "{", "a", "}">>
PathUC == <<"/", "u", "/", "{", "c", "}">>

UrlDoc ==
    SwaggerSpec(<<
        [path |-> PathOrgSiteId,
         item |-> PathItem(
            Some(Operation(None, None, <<>>,
                           <<Parameter(K_orgId, "path", FALSE, "string"),
                             Parameter(K_siteId, "path", FALSE, "string")>>, None)),
            None, None, None, None)],
        [path |-> PathABA,
         item |-> PathItem(
            Some(Operation(None, None, <<>>,
                           <<Parameter(K_a, "path", FALSE, "string"),
                             Parameter(K_b, "path", FALSE, "string")>>, None)),
            None, None, None, None)],
        [path |-> PathUC,
         item |-> PathItem(
            Some(Operation(None, None, <<>>, <<>>, None)),
            None, None, None, None)]
    >>)

ExampleBase == <<"h", "t", "t", "p", "s", ":", "/", "/", "a", "p", "i", ".", "p", "a", "n", "g", "o", "l", "i", "n", ".", "e", "x", "a", "m", "p", "l", "e", ".", "c", "o", "m", "/", "v", "1">>

UrlBases == {ExampleBase, <<"h", "t", "t", "p", ":", "/", "/", "h">>, <<"h", "t", "t", "p", ":", "/", "/", "h", "/">>, <<"h", "t", "t", "p", ":", "/", "/", "h", "/", "/">>}

UrlValuesFor(k) ==
    CASE k = K_a -> {JString(<<"x">>), JString(<<"{", "b", "}">>)}
      [] k = K_b -> {JString(<<"y">>), JString(<<"{", "a", "}">>)}

ExampleArgs ==
    InsertAll(Entry(K_orgId, JString(<<"o", "r", "g", "1", "2", "3">>)), Entry(K_siteId, JString(<<"s", "i", "t", "e", "4", "5", "6">>)))

UrlArgMaps ==
    {ExampleArgs}
        \union UNION {{m \in [S -> UNION {UrlValuesFor(k) : k \in {K_a, K_b}}] :
                            \A k \in S : m[k] \in UrlValuesFor(k)} : S \in SUBSET {K_a, K_b}}

UrlArguments == {None} \union {Some(m) : m \in UrlArgMaps}

InitUrl ==
    /\ doc = UrlDoc
    /\ phase = "serving"
    /\ base_url \in UrlBases
    /\ client = [base_url |-> base_url, api_key |-> ApiKey]
    /\ read_only = FALSE
    /\ endpoints = extract_endpoints(doc)
    /\ calls = [c \in Calls |-> Idle]
    /\ listed = None

NextUrl ==
    \/ \E c \in Calls, n \in ToolNames, a \in UrlArguments : CallTool(c, n, a)
    \/ \E c \in Calls : SendFails(c)
    \/ \E c \in Calls : Return(c)

SpecUrl == InitUrl /\ [][NextUrl]_vars

\* The text without its trailing slashes.
WithoutTrailingSlashes(s) ==
    LET others == {i \in 1..Len(s) : s[i] # "/"}
    IN  IF others = {} THEN <<>>
        ELSE SubSeq(s, 1, CHOOSE i \in others : \A j \in others : j <= i)

Placeholder(k) == <<"{">> \o k \o <<"}">>

\* pat occurs at position i of s.
OccursAt(pat, s, i) == i + Len(pat) - 1 <= Len(s) /\ SubSeq(s, i, i + Len(pat) - 1) = pat

Occurs(pat, s) == \E i \in 1..Len(s) : OccursAt(pat, s, i)

RECURSIVE Filled(_, _, _)
\* The template from position i on, every occurrence of {key}, for every key
\* of params, as that key's value.
Filled(template, params, i) ==
    IF i > Len(template) THEN <<>>
    ELSE LET here == {k \in DOMAIN params : OccursAt(Placeholder(k), template, i)}
             k == CHOOSE x \in here : TRUE
         IN  IF here # {}
             THEN params[k] \o Filled(template, params, i + Len(Placeholder(k)))
             ELSE <<template[i]>> \o Filled(template, params, i + 1)

\* The path bucket of call c: the declared path parameters that the
\* arguments hold, stringified.
PathBucket(c) ==
    [k \in ParamNames(Resolved(c).path_params) \intersect DOMAIN ArgsOf(c) |->
        value_to_string(ArgsOf(c)[k])]

\* C13: the URL of every request is the base without its trailing slashes
\* followed by the path template in which every occurrence of {key}, for
\* every key of the path parameters, is replaced by that key's value, so
\* that no placeholder whose key is among the parameters remains.
C13_UrlIsBaseAndFilledTemplate ==
    \A c \in Calls :
        IsSome(calls[c].request)
        => LET url == Unwrap(calls[c].request).url
           IN  /\ url = WithoutTrailingSlashes(client.base_url)
                            \o Filled(Resolved(c).path, PathBucket(c), 1)
               /\ \A k \in DOMAIN PathBucket(c) : ~Occurs(Placeholder(k), url)

FirstNamed(params, n) ==
    params[CHOOSE i \in 1..Len(params) :
                /\ params[i].name = n
                /\ \A j \in 1..(i - 1) : params[j].name # n]

\* C16: the properties of a tool descriptor are inserted path parameters
\* first, then query parameters, then body properties, and a later
\* insertion never overwrites an earlier one: under each name stands the
\* entry of the path parameter of that name, else of the query parameter of
\* that name, else of the body property of that name.
C16_EarlierInsertionWins ==
    IsSome(listed) =>
        \A i \in 1..Len(Unwrap(listed).tools) :
            LET properties == Unwrap(listed).tools[i].input_schema.properties
                e == get_available_endpoints[i]
                body == IF IsSome(e.request_body)
                        THEN Unwrap(e.request_body).properties
                        ELSE EmptyMap
            IN  /\ DOMAIN properties =
                        ParamNames(e.path_params) \union ParamNames(e.query_params)
                            \union DOMAIN body
                /\ \A n \in DOMAIN properties :
                        properties[n] =
                            IF n \in ParamNames(e.path_params)
                            THEN ParamEntry(FirstNamed(e.path_params, n))
                            ELSE IF n \in ParamNames(e.query_params)
                            THEN ParamEntry(FirstNamed(e.query_params, n))
                            ELSE BodyEntry(body[n])

\* The names of the declared path and query parameters of the operation
\* that call c resolves to.
DeclaredNames(c) ==
    ParamNames(Resolved(c).path_params) \union ParamNames(Resolved(c).query_params)

\* C17: when the operation declares a request body, the body of the request
\* holds, with their values unchanged, exactly the argument keys that match
\* no declared path or query parameter name; a key that matches one never
\* appears in the body; and when no such key is left, no body is sent.
C17_BodyIsTheUndeclaredArguments ==
    \A c \in Calls :
        (IsSome(calls[c].request) /\ IsSome(Resolved(c).request_body))
        => LET json == Unwrap(calls[c].request).json
               rest == DOMAIN ArgsOf(c) \ DeclaredNames(c)
           IN  /\ rest = {} => json = None
               /\ rest # {} =>
                    /\ IsSome(json)
                    /\ DOMAIN Unwrap(json) = rest
                    /\ \A k \in rest : Unwrap(json)[k] = ArgsOf(c)[k]
               /\ IsSome(json) => DOMAIN Unwrap(json) \intersect DeclaredNames(c) = {}

C17_Witness ==
    \E c \in Calls :
        /\ IsSome(calls[c].request)
        /\ Resolved(c).method = "PUT"
        /\ DOMAIN ArgsOf(c) = {K_orgId, K_q, K_name}
        /\ IsSome(Unwrap(calls[c].request).json)
        /\ DOMAIN Unwrap(Unwrap(calls[c].request).json) = {K_q, K_name}
        /\ Unwrap(Unwrap(calls[c].request).json)[K_name] = JNull

\* The declared query parameters of the operation of call c that the
\* arguments lack.
AbsentQuery(c) == ParamNames(Resolved(c).query_params) \ DOMAIN ArgsOf(c)

\* C18: a declared query parameter that the arguments lack, required or
\* not, causes no error: when the name resolves, the policy permits the
\* operation and no required path parameter is missing, the request is
\* handed to the HTTP collaborator, and its query string omits that
\* parameter; the call does not fail with a protocol error.
C18_AbsentQueryParamIsOmitted ==
    \A c \in Calls :
        (/\ Made(c) /\ Resolves(c)
         /\ ~(read_only /\ Resolved(c).method \in WriteMethods)
         /\ \A i \in 1..Len(Resolved(c).path_params) :
                ~Lacks(Resolved(c).path_params, i, ArgsOf(c))
         /\ AbsentQuery(c) # {})
        => /\ IsSome(calls[c].request)
           /\ ~ReturnedProtocolError(c)
           /\ LET query == Unwrap(calls[c].request).query
              IN  IsSome(query) => DOMAIN Unwrap(query) \intersect AbsentQuery(c) = {}

C18_Witness ==
    \E c \in Calls :
        /\ calls[c].pc = "awaiting"
        /\ Resolved(c).method = "POST"
        /\ \E i \in 1..Len(Resolved(c).query_params) :
                Lacks(Resolved(c).query_params, i, ArgsOf(c))
        /\ Unwrap(calls[c].request).query = None

\* The direct properties of a schema.
PropertiesOf(schema) ==
    IF IsSome(schema.properties) THEN Unwrap(schema.properties) ELSE EmptyMap

\* The schemas that contribute to the body property map, in merge order:
\* the schema itself, its allOf sub-schemas in declared order, and the first
\* entry of its anyOf.
Contributors(schema) ==
    <<schema>>
        \o (IF IsSome(schema.all_of) THEN Unwrap(schema.all_of) ELSE <<>>)
        \o (IF IsSome(schema.any_of) /\ Len(Unwrap(schema.any_of)) > 0
            THEN <<Unwrap(schema.any_of)[1]>>
            ELSE <<>>)

\* The last contributor that has a property of that name.
LastHolder(sources, n) ==
    CHOOSE i \in 1..Len(sources) :
        /\ n \in DOMAIN PropertiesOf(sources[i])
        /\ \A j \in (i + 1)..Len(sources) : n \notin DOMAIN PropertiesOf(sources[j])

PathIndex(p) == CHOOSE i \in 1..Len(doc.paths) : doc.paths[i].path = p

\* The place of a method in the order GET, POST, PUT, DELETE, PATCH.
MethodRank(method) ==
    CASE method = "GET" -> 1
      [] method = "POST" -> 2
      [] method = "PUT" -> 3
      [] method = "DELETE" -> 4
      [] method = "PATCH" -> 5

\* C20: the operation list is ordered by the declared order of the paths of
\* the document and, within one path, by the method order GET, POST, PUT,
\* DELETE, PATCH.
C20_ListFollowsPathThenMethodOrder ==
    phase = "serving" =>
        \A i, j \in 1..Len(endpoints) :
            i < j =>
                \/ PathIndex(endpoints[i].path) < PathIndex(endpoints[j].path)
                \/ /\ endpoints[i].path = endpoints[j].path
                   /\ MethodRank(endpoints[i].method) < MethodRank(endpoints[j].method)

C20_Witness ==
    /\ phase = "serving"
    /\ Len(doc.paths) = 2
    /\ Len(endpoints) = 5
    /\ endpoints[1].path = doc.paths[1].path
    /\ endpoints[1].method = "PUT"
    /\ endpoints[3].method = "PATCH"
    /\ endpoints[4].method = "GET"
    /\ endpoints[4].path = doc.paths[2].path
    /\ endpoints[5].method = "POST"

\* C21: the required sequence of an extracted body schema holds no name
\* twice: a name required by more than one merged source (the schema
\* itself, an allOf sub-schema, the first anyOf entry) appears once.
C21_BodyRequiredHasNoDuplicates ==
    \A i \in 1..Len(endpoints) :
        IsSome(endpoints[i].request_body)
        => NoDuplicates(Unwrap(endpoints[i].request_body).required)

\* C22: the content_type of an extracted body schema is the media type
\* whose schema was chosen: application/json when the request body declares
\* it, otherwise the media type that the fallback selected.
C22_ContentTypeIsChosenMedia ==
    (phase = "serving" /\ IsSome(endpoints[1].request_body))
    => Unwrap(endpoints[1].request_body).content_type =
            Unwrap(ChosenMedia(Unwrap(DeclaredOperation.request_body))).media

\* C23: every call invocation contacts the HTTP collaborator at most once.
\* A request is handed to the collaborator only by the step in which an
\* invocation starts; the outcome that arrives for an awaiting call, be it a
\* transport failure, an error status or a success, ends the call with a
\* result and leaves its one request as it was; a finished call is only
\* returned.  So the requests ever issued are at most the invocations.
C23_AtMostOneRequestPerCall ==
    [][\A c \in Calls :
        /\ (IsSome(calls'[c].request) /\ calls'[c].request # calls[c].request)
            => (calls[c].pc = "idle" /\ calls'[c].pc = "awaiting")
        /\ (calls[c].pc = "awaiting" /\ calls'[c] # calls[c])
            => /\ calls'[c].pc = "done"
               /\ calls'[c].request = calls[c].request
               /\ IsSome(calls'[c].response)
               /\ IsSome(calls'[c].result)
        /\ (calls[c].pc = "done" /\ calls'[c] # calls[c])
            => calls'[c] = Idle]_vars

C23_Witness ==
    \E c \in Calls :
        /\ calls[c].pc = "done"
        /\ IsSome(calls[c].request)
        /\ Unwrap(calls[c].response).outcome = "received"
        /\ Unwrap(calls[c].response).status = 404
        /\ Unwrap(calls[c].result).is_error = Some(TRUE)

\* The names of the tools of the last list_tools response.
ListedNames ==
    {Unwrap(listed).tools[i].name : i \in 1..Len(Unwrap(listed).tools)}

\* C24: while read_only is true, a call to a name that list_tools has
\* returned dispatches to an operation whose method is GET and is not
\* rejected by the read-only policy.
C24_ListedNamesAreCallable ==
    (read_only /\ IsSome(listed))
    => /\ \A n \in ListedNames : Unwrap(find_endpoint(n)).method = "GET"
       /\ \A c \in Calls :
            (calls[c].pc = "done" /\ calls[c].name \in ListedNames)
            => Unwrap(calls[c].result).text # blocked_message(calls[c].name)

\* C25: the checks of a call run in the order name lookup, read-only
\* policy, required path parameters: under read_only=true a call whose name
\* resolves to a write operation and that lacks a required path parameter
\* returns the policy rejection as a call result with error=true, not the
\* protocol-level missing-parameter error.
C25_PolicyBeforeParameterValidation ==
    \A c \in Calls :
        (/\ Made(c) /\ Resolves(c) /\ read_only
         /\ Resolved(c).method \in WriteMethods
         /\ \E i \in 1..Len(Resolved(c).path_params) :
                Lacks(Resolved(c).path_params, i, ArgsOf(c)))
        => /\ calls[c].pc = "done"
           /\ Unwrap(calls[c].result) =
                CallToolResult(blocked_message(calls[c].name), TRUE)
           /\ ~ReturnedProtocolError(c)

C25_Witness ==
    \E c \in Calls :
        /\ calls[c].pc = "done" /\ read_only /\ Resolves(c)
        /\ Resolved(c).method = "PATCH"
        /\ DOMAIN ArgsOf(c) = {K_name}
        /\ Unwrap(calls[c].result).kind = "CallToolResult"

\* C26: the URL of a request is the same for every order in which the keys
\* of the path parameters are substituted, whatever the values, also when a
\* value holds the text {otherKey} of another supplied key.
C26_UrlIsOrderIndependent ==
    \A c \in Calls :
        IsSome(calls[c].request)
        => \A order \in Perms(DOMAIN PathBucket(c)) :
                build_url(client.base_url, Resolved(c).path, PathBucket(c), order)
                    = Unwrap(calls[c].request).url

\* C27: when the operation has no request body, because none is declared or
\* because the merged property map was empty, no body is sent whatever the
\* arguments: the call proceeds to the HTTP collaborator, and the argument
\* keys that match no declared path or query parameter are in neither the
\* body nor the query string.
C27_NoBodyWithoutBodySchema ==
    \A c \in Calls :
        (/\ Made(c) /\ Resolves(c)
         /\ ~(read_only /\ Resolved(c).method \in WriteMethods)
         /\ \A i \in 1..Len(Resolved(c).path_params) :
                ~Lacks(Resolved(c).path_params, i, ArgsOf(c))
         /\ Resolved(c).request_body = None)
        => /\ IsSome(calls[c].request)
           /\ Unwrap(calls[c].request).json = None
           /\ Unwrap(calls[c].request).content_type = None
           /\ LET query == Unwrap(calls[c].request).query
              IN  IsSome(query) =>
                    DOMAIN Unwrap(query) \subseteq ParamNames(Resolved(c).query_params)

C27_Witness ==
    \E c \in Calls :
        /\ calls[c].pc = "awaiting"
        /\ Resolved(c).method = "PATCH"
        /\ IsSome(Unwrap(doc.paths[1].item.patch).request_body)
        /\ DOMAIN ArgsOf(c) = {K_orgId, K_q, K_name}
        /\ Unwrap(calls[c].request).json = None

K_c == <<"c">>

\* The names of the placeholders of a path template of the URL
\* specification.
TemplateNames(path) ==
    {k \in {K_orgId, K_siteId, K_a, K_b, K_c} : Occurs(Placeholder(k), path)}

\* The parameters that the document declares for the GET operation that
\* call c resolves to.
DeclaredParameters(c) ==
    LET i == CHOOSE j \in 1..Len(doc.paths) : doc.paths[j].path = Resolved(c).path
    IN  Unwrap(doc.paths[i].item.get).parameters

\* C28: a placeholder of the path template without a value in the path
\* bucket, its parameter being undeclared or optional and absent from the
\* arguments, causes no error: the request is sent, and its URL still holds
\* the text {name}.
C28_UnresolvedPlaceholderIsSent ==
    \A c \in Calls :
        (/\ Made(c) /\ Resolves(c)
         /\ \A i \in 1..Len(DeclaredParameters(c)) :
                ~Lacks(DeclaredParameters(c), i, ArgsOf(c)))
        => \A k \in TemplateNames(Resolved(c).path) \ DOMAIN PathBucket(c) :
                /\ IsSome(calls[c].request)
                /\ ~ReturnedProtocolError(c)
                /\ Occurs(Placeholder(k), Unwrap(calls[c].request).url)

C28_Witness ==
    \E c \in Calls :
        /\ calls[c].pc = "awaiting"
        /\ Resolved(c).path = PathABA
        /\ DOMAIN ArgsOf(c) = {K_b}
        /\ Unwrap(calls[c].request).url = <<"h", "t", "t", "p", ":", "/", "/", "h", "/", "{", "a", "}", "/", "y", "/", "{", "a", "}">>

====
